---- MODULE Spec2Model ----
(***************************************************************************)
(* Model of backend/routers/announcements.py: the announcement endpoints   *)
(* (list, active, create, update, delete) over the announcements and       *)
(* teachers collections.                                                   *)
(*                                                                         *)
(* A Python string is a tuple of one-character strings, so that string     *)
(* comparison, parsing and formatting are computed and not assumed.        *)
(* None is the one-element tuple <<"None">>, which is no string because    *)
(* "None" is not a character.  A stored document is a record of its five   *)
(* fields, a missing field reading as None (what dict.get returns).        *)
(***************************************************************************)
EXTENDS Integers, Sequences, FiniteSets, TLC

VARIABLES
    store,      \* announcements_collection: ObjectId -> document
    counter,    \* count of ObjectIds the store has generated so far
    today,      \* datetime.utcnow().date(), as <<year, month, day>>
    inflight,   \* update requests between their update_one and their find_one
    deleted,    \* history: ObjectIds removed by a successful delete_one
    fresh,      \* history: created, not yet updated or deleted: oid -> create's arguments
    last        \* the request step taken last: its arguments and its response

vars == <<store, counter, today, inflight, deleted, fresh, last>>

-----------------------------------------------------------------------------
(* Bounds of the model *)

MaxCreated == 2      \* insert_one calls explored
MaxInFlight == 1     \* update requests simultaneously between write and read-back

-----------------------------------------------------------------------------
(* Python values *)

None == <<"None">>

Falsy(x) == x = None \/ x = <<>>

Digits == <<"0", "1", "2", "3", "4", "5", "6", "7", "8", "9">>

\* code-point order of the characters used
Alphabet == <<"-", "0", "1", "2", "3", "4", "5", "6", "7", "8", "9", ":",
              "A", "B", "C", "D", "E", "F", "T", "a", "b", "c", "d", "e", "f", "x">>

Ord(c) == CHOOSE i \in 1..Len(Alphabet) : Alphabet[i] = c

IsDigit(c) == \E i \in 1..Len(Digits) : Digits[i] = c

DigitVal(c) == (CHOOSE i \in 1..Len(Digits) : Digits[i] = c) - 1

\* str < str, str <= str: lexicographic by code point
StrLT(a, b) ==
    \E k \in 1..(Len(b)) :
        /\ \A j \in 1..(k - 1) : j <= Len(a) /\ a[j] = b[j]
        /\ \/ k = Len(a) + 1
           \/ k <= Len(a) /\ Ord(a[k]) < Ord(b[k])

StrLE(a, b) == a = b \/ StrLT(a, b)

-----------------------------------------------------------------------------
(* datetime.fromisoformat(s).date() and date.isoformat() *)

Num2(s, i) == 10 * DigitVal(s[i]) + DigitVal(s[i + 1])

Num4(s, i) == 100 * Num2(s, i) + Num2(s, i + 2)

IsLeap(y) == (y % 4 = 0 /\ y % 100 # 0) \/ y % 400 = 0

DaysInMonth(y, m) ==
    IF m = 2 THEN (IF IsLeap(y) THEN 29 ELSE 28)
    ELSE IF m \in {4, 6, 9, 11} THEN 30 ELSE 31

AllDigits(s, idx) == \A i \in idx : IsDigit(s[i])

\* YYYY-MM-DD in the first ten characters, a real calendar day
ValidDatePart(s) ==
    /\ Len(s) >= 10
    /\ AllDigits(s, {1, 2, 3, 4, 6, 7, 9, 10})
    /\ s[5] = "-" /\ s[8] = "-"
    /\ Num4(s, 1) >= 1
    /\ Num2(s, 6) \in 1..12
    /\ Num2(s, 9) \in 1..DaysInMonth(Num4(s, 1), Num2(s, 6))

\* HH[:MM[:SS]] from character 12 on (character 11 is any one separator)
ValidTimePart(s) ==
    /\ Len(s) \in {13, 16, 19}
    /\ AllDigits(s, {12, 13}) /\ Num2(s, 12) \in 0..23
    /\ Len(s) >= 16 => s[14] = ":" /\ AllDigits(s, {15, 16}) /\ Num2(s, 15) \in 0..59
    /\ Len(s) >= 19 => s[17] = ":" /\ AllDigits(s, {18, 19}) /\ Num2(s, 18) \in 0..59

\* fromisoformat does not raise (a non-string raises TypeError, a bad string
\* ValueError), for the extended format YYYY-MM-DD[*HH[:MM[:SS]]]
CanParse(s) ==
    /\ s # None
    /\ ValidDatePart(s)
    /\ Len(s) = 10 \/ ValidTimePart(s)

\* datetime.fromisoformat(s).date(), where CanParse(s)
ParseDate(s) == <<Num4(s, 1), Num2(s, 6), Num2(s, 9)>>

DateOrd(d) == d[1] * 10000 + d[2] * 100 + d[3]

DateLT(a, b) == DateOrd(a) < DateOrd(b)

DateLE(a, b) == DateOrd(a) <= DateOrd(b)

Pad2(n) == <<Digits[(n \div 10) + 1], Digits[(n % 10) + 1]>>

Pad4(n) == Pad2(n \div 100) \o Pad2(n % 100)

\* date.isoformat()
IsoFormat(d) == Pad4(d[1]) \o <<"-">> \o Pad2(d[2]) \o <<"-">> \o Pad2(d[3])

\* datetime.utcnow().isoformat(), the clock being modelled to the day
UtcNowIso == IsoFormat(today) \o <<"T", "0", "0", ":", "0", "0", ":", "0", "0">>

-----------------------------------------------------------------------------
(* bson.ObjectId and the two collections *)

HexLower == <<"0", "1", "2", "3", "4", "5", "6", "7", "8", "9",
              "a", "b", "c", "d", "e", "f">>

HexUpper == <<"0", "1", "2", "3", "4", "5", "6", "7", "8", "9",
              "A", "B", "C", "D", "E", "F">>

IsHex(c) == \E i \in 1..16 : HexLower[i] = c \/ HexUpper[i] = c

HexVal(c) == (CHOOSE i \in 1..16 : HexLower[i] = c \/ HexUpper[i] = c) - 1

\* ObjectId(ann_id) does not raise: 24 hexadecimal characters
ValidOid(s) == s # None /\ Len(s) = 24 /\ \A i \in 1..24 : IsHex(s[i])

\* ObjectId(ann_id), where ValidOid(ann_id): the twelve bytes the characters spell
ObjectId(s) == [i \in 1..12 |-> 16 * HexVal(s[2 * i - 1]) + HexVal(s[2 * i])]

\* str(oid): two lower-case hexadecimal characters a byte
StrOid(oid) ==
    [i \in 1..24 |-> IF i % 2 = 1 THEN HexLower[(oid[(i + 1) \div 2] \div 16) + 1]
                     ELSE HexLower[(oid[i \div 2] % 16) + 1]]

\* the n-th ObjectId the store generates: distinct for distinct n < 86
NthOid(n) == [i \in 1..12 |-> IF i < 12 THEN 0 ELSE 170 + n]

\* find_one's None and the empty dict {}: both falsy, both without keys
EmptyDict == [k \in {} |-> k]

\* teachers_collection: the teacher directory, read-only to this router
Teacher == <<"m", "s">>

teachers_collection == {Teacher}

\* announcements_collection.find_one({"_id": oid})
FindOne(s, oid) == IF oid \in DOMAIN s THEN s[oid] ELSE EmptyDict

\* the _id insert_one gives the new document
InsertedId(s, c) == NthOid(c + 1)

\* announcements_collection.insert_one(doc)
InsertOne(s, c, doc) ==
    [o \in DOMAIN s \cup {InsertedId(s, c)} |->
        IF o = InsertedId(s, c) THEN doc ELSE s[o]]

\* update_one({"_id": oid}, {"$set": update}).matched_count
MatchedCount(s, oid) == IF oid \in DOMAIN s THEN 1 ELSE 0

\* the document replaced by update, not merged with it
SetFields_Replace(doc, update) ==
    [message         |-> update.message,
     start_date      |-> update.start_date,
     expiration_date |-> update.expiration_date,
     created_at      |-> doc.created_at,
     created_by      |-> doc.created_by]

\* $set: the keys of update (a None entry stands for a key update does not have)
SetFields(doc, update) ==
    [message         |-> IF update.message = None THEN doc.message
                         ELSE update.message,
     start_date      |-> IF update.start_date = None THEN doc.start_date
                         ELSE update.start_date,
     expiration_date |-> IF update.expiration_date = None THEN doc.expiration_date
                         ELSE update.expiration_date,
     created_at      |-> doc.created_at,
     created_by      |-> doc.created_by]

\* update_one with upsert: a document is made when none matches
UpdateOne_Upsert(s, oid, update) ==
    IF oid \in DOMAIN s THEN [s EXCEPT ![oid] = SetFields(@, update)]
    ELSE [o \in DOMAIN s \cup {oid} |->
            IF o = oid
            THEN [message |-> update.message, start_date |-> update.start_date,
                  expiration_date |-> update.expiration_date,
                  created_at |-> None, created_by |-> None]
            ELSE s[o]]

\* update_one that leaves alone a document whose start would come after its expiration
UpdateOne_Ordered(s, oid, update) ==
    IF oid \notin DOMAIN s THEN s
    ELSE IF /\ CanParse(SetFields(s[oid], update).start_date)
            /\ DateLT(ParseDate(SetFields(s[oid], update).expiration_date),
                      ParseDate(SetFields(s[oid], update).start_date))
         THEN s
         ELSE [s EXCEPT ![oid] = SetFields(@, update)]

\* the collection after update_one({"_id": oid}, {"$set": update})
UpdateOne(s, oid, update) ==
    IF oid \in DOMAIN s THEN [s EXCEPT ![oid] = SetFields(@, update)] ELSE s

\* a deleted_count that is never 0
DeletedCount_Unchecked(s, oid) == 1

\* delete_one({"_id": oid}).deleted_count
DeletedCount(s, oid) == IF oid \in DOMAIN s THEN 1 ELSE 0

\* the collection after delete_one({"_id": oid})
DeleteOne(s, oid) == [o \in DOMAIN s \ {oid} |-> s[o]]

\* _to_dict(doc), doc being the document stored under oid or find_one's None
ToDict(doc, oid) ==
    IF DOMAIN doc = {} THEN EmptyDict
    ELSE [id              |-> StrOid(oid),
          message         |-> doc.message,
          start_date      |-> doc.start_date,
          expiration_date |-> doc.expiration_date,
          created_at      |-> doc.created_at,
          created_by      |-> doc.created_by]

\* _require_teacher without the look-up in the directory
RequireTeacher_AnyName(username) == IF Falsy(username) THEN 401 ELSE 200

\* _require_teacher(username): 401 when it raises, 200 when it returns the teacher
RequireTeacher(username) ==
    IF Falsy(username) THEN 401
    ELSE IF username \notin teachers_collection THEN 401
    ELSE 200

-----------------------------------------------------------------------------
(* Sorting *)

\* the order of .sort([("expiration_date", 1)]): null first, strings by code point
KeyLE(a, b) == a = None \/ (b # None /\ StrLE(a, b))

\* seq with x put after the last element whose key is <= x's (stable)
RECURSIVE InsertSorted(_, _)
InsertSorted(seq, x) ==
    IF seq = <<>> THEN <<x>>
    ELSE IF KeyLE(seq[Len(seq)].expiration_date, x.expiration_date)
         THEN Append(seq, x)
         ELSE Append(InsertSorted(SubSeq(seq, 1, Len(seq) - 1), x), seq[Len(seq)])

\* seq sorted ascending by expiration_date
RECURSIVE SortByExpiration(_)
SortByExpiration(seq) ==
    IF seq = <<>> THEN <<>>
    ELSE InsertSorted(SortByExpiration(SubSeq(seq, 1, Len(seq) - 1)), seq[Len(seq)])

\* the ObjectIds of s in the order of generation (the order find() yields them)
RECURSIVE NaturalOrder(_, _)
NaturalOrder(s, n) ==
    IF n = 0 THEN <<>>
    ELSE IF NthOid(n) \in DOMAIN s
         THEN Append(NaturalOrder(s, n - 1), NthOid(n))
         ELSE NaturalOrder(s, n - 1)

\* announcements_collection.find(): the _ids in the order it yields the documents
Find(s, c) == NaturalOrder(s, c)

\* [_to_dict(a) for a in the documents of oids]
ToDicts(s, oids) == [i \in 1..Len(oids) |-> ToDict(s[oids[i]], oids[i])]

\* list_announcements without the sort
ListAnnouncements_Unsorted(s, c) == ToDicts(s, Find(s, c))

\* list_announcements()
ListAnnouncements(s, c) == SortByExpiration(ToDicts(s, Find(s, c)))

\* IsActive with the expiration day itself excluded
IsActive_ExpiresADayEarly(a, now) ==
    IF Falsy(a.expiration_date) THEN FALSE
    ELSE IF ~CanParse(a.expiration_date) THEN FALSE
    ELSE IF /\ ~Falsy(a.start_date)
            /\ CanParse(a.start_date)
            /\ DateLT(now, ParseDate(a.start_date)) THEN FALSE
    ELSE DateLT(now, ParseDate(a.expiration_date))

\* the test of one document a in active_announcements' loop, now the UTC date:
\* TRUE when a is appended to out
IsActive(a, now) ==
    IF Falsy(a.expiration_date) THEN FALSE
    ELSE IF ~CanParse(a.expiration_date) THEN FALSE
    ELSE IF /\ ~Falsy(a.start_date)
            /\ CanParse(a.start_date)
            /\ DateLT(now, ParseDate(a.start_date)) THEN FALSE
    ELSE DateLE(now, ParseDate(a.expiration_date))

\* the _ids among oids that active_announcements' loop appends, in order
RECURSIVE Filter(_, _, _)
Filter(s, oids, now) ==
    IF oids = <<>> THEN <<>>
    ELSE IF IsActive(s[oids[Len(oids)]], now)
         THEN Append(Filter(s, SubSeq(oids, 1, Len(oids) - 1), now), oids[Len(oids)])
         ELSE Filter(s, SubSeq(oids, 1, Len(oids) - 1), now)

\* active_announcements()
ActiveAnnouncements(s, c, now) ==
    SortByExpiration(ToDicts(s, Filter(s, Find(s, c), now)))

-----------------------------------------------------------------------------
(* Request arguments explored *)

D1 == <<"2", "0", "2", "4", "-", "0", "6", "-", "1", "0">>

D2 == <<"2", "0", "2", "4", "-", "0", "6", "-", "2", "0">>

\* parses like D2, is not written like it
D2T == D2 \o <<"T", "1", "0", ":", "0", "0">>

\* no calendar date: month 13, day 40
BadDate == <<"2", "0", "2", "4", "-", "1", "3", "-", "4", "0">>

Days == {ParseDate(D1), ParseDate(D2)}

\* teacher_username that is absent, empty, unknown to the directory
Strangers == {None, <<>>, <<"z">>}

Messages == {<<"a">>}

CreateExpirations == {D1, D2T, BadDate}

CreateStarts == {None, <<>>, D2, BadDate}

UpdateMessages == {None, <<"b">>}

UpdateExpirations == {None, D1, D2T, BadDate}

UpdateStarts == {None, <<>>, D2, BadDate}

UpperStr(s) == [i \in 1..Len(s) |-> IF IsHex(s[i]) THEN HexUpper[HexVal(s[i]) + 1] ELSE s[i]]

\* ann_id: the id of every document the store can hold (stored, deleted or not yet
\* created), the first of them in upper case too, and a string that is no ObjectId
AnnIds ==
    {StrOid(NthOid(n)) : n \in 1..MaxCreated}
        \cup {UpperStr(StrOid(NthOid(1))), <<"x">>}

\* documents a collection may hold that this router did not write
AnyDocs ==
    [message         : {<<"a">>},
     start_date      : {None, <<>>, BadDate, D1, D2},
     expiration_date : {None, <<>>, BadDate, D1, D2, D2T},
     created_at      : {D1 \o <<"T", "0", "0", ":", "0", "0", ":", "0", "0">>},
     created_by      : {Teacher}]

-----------------------------------------------------------------------------
(* Requests *)

\* a request and, once handled, its response: status 0 until the handler answers
Response(op, actor, id, message, expiration_date, start_date, status, body) ==
    [op |-> op, actor |-> actor, id |-> id, message |-> message,
     expiration_date |-> expiration_date, start_date |-> start_date,
     status |-> status, body |-> body]

NoRequest == Response("none", None, None, None, None, None, 0, EmptyDict)

CreateRequests(A, M, E, S) ==
    {Response("create", a, None, m, e, s, 0, EmptyDict) :
        a \in A, m \in M, e \in E, s \in S}

UpdateRequests(A, I, M, E, S) ==
    {Response("update", a, i, m, e, s, 0, EmptyDict) :
        a \in A, i \in I, m \in M, e \in E, s \in S}

DeleteRequests(A, I) ==
    {Response("delete", a, i, None, None, None, 0, EmptyDict) : a \in A, i \in I}

ListRequests ==
    {Response(op, None, None, None, None, None, 0, EmptyDict) :
        op \in {"list_all", "list_active"}}

\* the requests of a teacher (start_date, where given, not empty)
TeacherRequests ==
    CreateRequests({Teacher}, Messages, CreateExpirations, CreateStarts \ {<<>>})
        \cup UpdateRequests({Teacher}, AnnIds, UpdateMessages, UpdateExpirations,
                            UpdateStarts)
        \cup DeleteRequests({Teacher}, AnnIds)
        \cup ListRequests

\* every writing request of a caller who is no teacher, and every create and delete
\* of a teacher
CallerRequests ==
    CreateRequests(Strangers, Messages \cup {<<"b">>}, CreateExpirations, CreateStarts)
        \cup UpdateRequests(Strangers, AnnIds, UpdateMessages, UpdateExpirations,
                            UpdateStarts)
        \cup DeleteRequests(Strangers, AnnIds)
        \cup CreateRequests({Teacher}, Messages, CreateExpirations, CreateStarts)
        \cup DeleteRequests({Teacher}, AnnIds)

\* the requests of one teacher that write and rewrite messages and expiration dates
RacingRequests ==
    CreateRequests({Teacher}, {<<"a">>}, {D1}, {None})
        \cup UpdateRequests({Teacher}, {StrOid(NthOid(n)) : n \in 1..MaxCreated},
                            UpdateMessages, {None, D2T}, {None})
        \cup DeleteRequests({Teacher}, {StrOid(NthOid(n)) : n \in 1..MaxCreated})
        \cup ListRequests

\* a request arrives; overlap: it may arrive while an update is between its
\* update_one and its find_one
Receive(requests, overlap) ==
    /\ last = NoRequest
    /\ overlap \/ inflight = <<>>
    /\ last' \in requests
    /\ UNCHANGED <<store, counter, today, inflight, deleted, fresh>>

\* the response is delivered
Done ==
    /\ last.status # 0
    /\ last' = NoRequest
    /\ UNCHANGED <<store, counter, today, inflight, deleted, fresh>>

Answer(status, body) == [last EXCEPT !.status = status, !.body = body]

-----------------------------------------------------------------------------
(* The handlers *)

\* create_announcement up to insert_one: the status it raises, 200 when it goes on
CreateStatus(actor, expiration_date, start_date) ==
    IF RequireTeacher(actor) # 200 THEN 401
    ELSE IF ~CanParse(expiration_date) THEN 400
    ELSE IF ~Falsy(start_date) /\ ~CanParse(start_date) THEN 400
    ELSE IF /\ ~Falsy(start_date)
            /\ DateLT(ParseDate(expiration_date), ParseDate(start_date)) THEN 400
    ELSE 200

\* doc with expiration_date as given, not re-serialized
CreateDoc_RawExpiration(actor, message, expiration_date, start_date) ==
    [message         |-> message,
     start_date      |-> start_date,
     expiration_date |-> expiration_date,
     created_at      |-> UtcNowIso,
     created_by      |-> IF Falsy(actor) THEN <<"u", "n", "k", "n", "o", "w", "n">>
                         ELSE actor]

\* create_announcement's doc
CreateDoc(actor, message, expiration_date, start_date) ==
    [message         |-> message,
     start_date      |-> start_date,
     expiration_date |-> IsoFormat(ParseDate(expiration_date)),
     created_at      |-> UtcNowIso,
     created_by      |-> IF Falsy(actor) THEN <<"u", "n", "k", "n", "o", "w", "n">>
                         ELSE actor]

\* doc after doc["id"] = str(result.inserted_id) (the driver's own _id key left out)
CreateResult(doc, oid) ==
    [id              |-> StrOid(oid),
     message         |-> doc.message,
     start_date      |-> doc.start_date,
     expiration_date |-> doc.expiration_date,
     created_at      |-> doc.created_at,
     created_by      |-> doc.created_by]

WithKey(f, k, v) == [o \in DOMAIN f \cup {k} |-> IF o = k THEN v ELSE f[o]]

WithoutKey(f, k) == [o \in DOMAIN f \ {k} |-> f[o]]

\* POST /announcements
Create ==
    /\ last.op = "create" /\ last.status = 0
    /\ LET status == CreateStatus(last.actor, last.expiration_date, last.start_date)
           doc == CreateDoc(last.actor, last.message, last.expiration_date,
                            last.start_date)
           oid == InsertedId(store, counter)
       IN  /\ status = 200 => counter < MaxCreated
           /\ IF status = 200
              THEN /\ store' = InsertOne(store, counter, doc)
                   /\ counter' = counter + 1
                   /\ fresh' = WithKey(fresh, oid,
                                       [message |-> last.message,
                                        expiration_date |-> last.expiration_date])
                   /\ last' = Answer(200, CreateResult(doc, oid))
              ELSE /\ UNCHANGED <<store, counter, fresh>>
                   /\ last' = Answer(status, EmptyDict)
    /\ UNCHANGED <<today, inflight, deleted>>

\* update_announcement up to update_one: the status it raises, 200 when it goes on
UpdateStatus(actor, ann_id, message, expiration_date, start_date) ==
    IF RequireTeacher(actor) # 200 THEN 401
    ELSE IF ~ValidOid(ann_id) THEN 400
    ELSE IF expiration_date # None /\ ~CanParse(expiration_date) THEN 400
    ELSE IF start_date # None /\ ~CanParse(start_date) THEN 400
    ELSE IF message = None /\ expiration_date = None /\ start_date = None THEN 400
    ELSE 200

\* update_announcement's update dict (a None entry stands for a key it does not have)
UpdateDict(message, expiration_date, start_date) ==
    [message         |-> message,
     expiration_date |-> IF expiration_date = None THEN None
                         ELSE IsoFormat(ParseDate(expiration_date)),
     start_date      |-> start_date]

\* PUT /announcements/{ann_id}, through update_one and the 404 after it
Update ==
    /\ last.op = "update" /\ last.status = 0
    /\ LET status == UpdateStatus(last.actor, last.id, last.message,
                                  last.expiration_date, last.start_date)
           oid == ObjectId(last.id)
           update == UpdateDict(last.message, last.expiration_date, last.start_date)
       IN  IF status # 200
           THEN /\ UNCHANGED <<store, inflight, fresh>>
                /\ last' = Answer(status, EmptyDict)
           ELSE /\ store' = UpdateOne(store, oid, update)
                /\ IF MatchedCount(store, oid) = 0
                   THEN /\ UNCHANGED <<inflight, fresh>>
                        /\ last' = Answer(404, EmptyDict)
                   ELSE /\ Len(inflight) < MaxInFlight
                        /\ inflight' = Append(inflight, last)
                        /\ fresh' = WithoutKey(fresh, oid)
                        /\ last' = NoRequest
    /\ UNCHANGED <<counter, today, deleted>>

\* PUT /announcements/{ann_id}, from find_one to the return
UpdateReturn ==
    /\ last = NoRequest
    /\ \E i \in 1..Len(inflight) :
        LET oid == ObjectId(inflight[i].id)
        IN  /\ inflight' = SubSeq(inflight, 1, i - 1)
                               \o SubSeq(inflight, i + 1, Len(inflight))
            /\ last' = [inflight[i] EXCEPT !.status = 200,
                                           !.body = ToDict(FindOne(store, oid), oid)]
    /\ UNCHANGED <<store, counter, today, deleted, fresh>>

\* delete_announcement up to delete_one: the status it raises, 200 when it goes on
DeleteStatus(actor, ann_id) ==
    IF RequireTeacher(actor) # 200 THEN 401
    ELSE IF ~ValidOid(ann_id) THEN 400
    ELSE 200

\* DELETE /announcements/{ann_id}
Delete ==
    /\ last.op = "delete" /\ last.status = 0
    /\ LET status == DeleteStatus(last.actor, last.id)
           oid == ObjectId(last.id)
       IN  IF status # 200
           THEN /\ UNCHANGED <<store, deleted, fresh>>
                /\ last' = Answer(status, EmptyDict)
           ELSE /\ store' = DeleteOne(store, oid)
                /\ IF DeletedCount(store, oid) = 0
                   THEN /\ UNCHANGED <<deleted, fresh>>
                        /\ last' = Answer(404, EmptyDict)
                   ELSE /\ deleted' = deleted \cup {oid}
                        /\ fresh' = WithoutKey(fresh, oid)
                        /\ last' = Answer(200, EmptyDict)
    /\ UNCHANGED <<counter, today, inflight>>

\* GET /announcements
ListAll ==
    /\ last.op = "list_all" /\ last.status = 0
    /\ last' = Answer(200, ListAnnouncements(store, counter))
    /\ UNCHANGED <<store, counter, today, inflight, deleted, fresh>>

\* GET /announcements/active
ListActive ==
    /\ last.op = "list_active" /\ last.status = 0
    /\ last' = Answer(200, ActiveAnnouncements(store, counter, today))
    /\ UNCHANGED <<store, counter, today, inflight, deleted, fresh>>

\* the UTC date moves on (no request being handled)
Tick ==
    /\ last = NoRequest
    /\ \E d \in Days : DateLT(today, d) /\ today' = d
    /\ UNCHANGED <<store, counter, inflight, deleted, fresh, last>>

-----------------------------------------------------------------------------
(* Specifications *)

\* an empty collection, on the first day
Init ==
    /\ store = EmptyDict
    /\ counter = 0
    /\ today = ParseDate(D1)
    /\ inflight = <<>>
    /\ deleted = {}
    /\ fresh = EmptyDict
    /\ last = NoRequest

\* the requests of a teacher, handled one after the other
Next ==
    \/ Receive(TeacherRequests, FALSE)
    \/ Create
    \/ Update
    \/ UpdateReturn
    \/ Delete
    \/ ListAll
    \/ ListActive
    \/ Done

Spec == Init /\ [][Next]_vars

\* requests that arrive while an update has written and not yet read back
NextRacing ==
    \/ Receive(RacingRequests, TRUE)
    \/ Create
    \/ Update
    \/ UpdateReturn
    \/ Delete
    \/ ListAll
    \/ ListActive
    \/ Done

SpecRacing == Init /\ [][NextRacing]_vars

\* the requests of callers who are no teachers, while a teacher creates and deletes
NextCallers ==
    \/ Receive(CallerRequests, FALSE)
    \/ Create
    \/ Update
    \/ Delete
    \/ Done

SpecCallers == Init /\ [][NextCallers]_vars

\* a collection of any documents, on either day
InitStore ==
    /\ \E n \in 0..MaxCreated :
        /\ store \in [{NthOid(k) : k \in 1..n} -> AnyDocs]
        /\ counter = n
    /\ today \in Days
    /\ inflight = <<>>
    /\ deleted = {}
    /\ fresh = EmptyDict
    /\ last = NoRequest

\* the two listings, the date moving on
NextStore ==
    \/ Receive(ListRequests, FALSE)
    \/ ListAll
    \/ ListActive
    \/ Done
    \/ Tick

SpecStore == InitStore /\ [][NextStore]_vars

-----------------------------------------------------------------------------
(* Properties *)

\* the actor is the key of a teacher record
Resolves(actor) == actor # None /\ actor # <<>> /\ actor \in teachers_collection

\* the step to come answers a request of the kind op
Handling(op) == last.op = op /\ last.status = 0

\* the request of the kind op has been answered
Answered(op) == last.op = op /\ last.status # 0

\* the rule of the active window, for a stored document a on the day t
InWindow(a, t) ==
    /\ a.expiration_date # None
    /\ CanParse(a.expiration_date)
    /\ \/ a.start_date = None
       \/ a.start_date = <<>>
       \/ ~CanParse(a.start_date)
       \/ DateLE(ParseDate(a.start_date), t)
    /\ DateLE(t, ParseDate(a.expiration_date))

\* C1: list_active() returns exactly the stored announcements whose expiration_date
\* is present and parses, whose start_date is absent, empty, unparseable or <= today,
\* and with today <= expiration_date; each of them once, none other.
C1_ActiveIsExactlyTheWindow ==
    Answered("list_active") =>
        /\ Len(last.body) = Cardinality({o \in DOMAIN store : InWindow(store[o], today)})
        /\ \A o \in DOMAIN store :
            InWindow(store[o], today)
                <=> \E i \in 1..Len(last.body) : last.body[i] = ToDict(store[o], o)

\* list_active answered on a day that is the start and the expiration day of the one
\* document it lists, the other stored document having no usable expiration_date
C1_Witness ==
    /\ Answered("list_active")
    /\ Len(last.body) = 1
    /\ last.body[1].start_date = IsoFormat(today)
    /\ last.body[1].expiration_date = IsoFormat(today)
    /\ \E o \in DOMAIN store : store[o].expiration_date \in {None, <<>>, BadDate}

\* C2: create, update and delete by an actor that is absent, empty or no teacher's
\* key answer 401 whatever the other arguments, and leave the collection as it was.
C2_UnauthorizedChangesNothing ==
    [][(/\ last.status = 0
        /\ last.op \in {"create", "update", "delete"}
        /\ ~Resolves(last.actor))
          => (last'.status = 401 /\ store' = store)]_vars

\* an update of a stored document's neighbour by an unknown name, with a malformed
\* id and a malformed date, answered 401
C2_Witness ==
    /\ Answered("update")
    /\ last.status = 401
    /\ last.actor = <<"z">>
    /\ last.id = <<"x">>
    /\ last.expiration_date = BadDate
    /\ DOMAIN store # {}

\* C3: create by a valid actor answers 400 whenever expiration_date does not parse,
\* or a provided start_date does not parse, or a provided start_date parses to a
\* date strictly later than expiration_date.
C3_CreateRejectsBadDates ==
    (/\ Answered("create")
     /\ Resolves(last.actor)
     /\ \/ ~CanParse(last.expiration_date)
        \/ last.start_date # None /\ ~CanParse(last.start_date)
        \/ /\ last.start_date # None
           /\ CanParse(last.start_date)
           /\ CanParse(last.expiration_date)
           /\ DateLT(ParseDate(last.expiration_date), ParseDate(last.start_date)))
        => last.status = 400

\* C4: list_all() returns every stored announcement exactly once, unfiltered, sorted
\* non-decreasing by the expiration_date string.
C4_ListAllCompleteAndSorted ==
    Answered("list_all") =>
        /\ Len(last.body) = Cardinality(DOMAIN store)
        /\ \A o \in DOMAIN store :
            \E i \in 1..Len(last.body) : last.body[i] = ToDict(store[o], o)
        /\ \A i, j \in 1..Len(last.body) :
            i < j => StrLE(last.body[i].expiration_date, last.body[j].expiration_date)

\* list_all answered with the document created second listed first
C4_Witness ==
    /\ Answered("list_all")
    /\ Len(last.body) = 2
    /\ last.body[1].id = StrOid(NthOid(2))
    /\ last.body[1].expiration_date # last.body[2].expiration_date

\* C5: delete by a valid actor of a stored announcement answers 200 and removes that
\* record alone; a later delete of the same id by a valid actor answers 404 and
\* changes nothing; a deleted id is never stored again and never listed again.
C5_DeleteIsPermanent ==
    [][/\ (Handling("delete") /\ Resolves(last.actor) /\ ValidOid(last.id))
            => /\ ObjectId(last.id) \in DOMAIN store
                    => /\ last'.status = 200
                       /\ DOMAIN store' = DOMAIN store \ {ObjectId(last.id)}
                       /\ \A o \in DOMAIN store' : store'[o] = store[o]
               /\ ObjectId(last.id) \in deleted
                    => last'.status = 404 /\ store' = store
       /\ deleted' \cap DOMAIN store' = {}
       /\ (last'.op \in {"list_all", "list_active"} /\ last'.status = 200)
            => \A i \in 1..Len(last'.body) : ObjectId(last'.body[i].id) \notin deleted'
      ]_vars

\* a second delete of an id answered 404, another document being stored
C5_Witness ==
    /\ Answered("delete")
    /\ last.status = 404
    /\ Resolves(last.actor)
    /\ ValidOid(last.id)
    /\ ObjectId(last.id) \in deleted
    /\ DOMAIN store # {}

\* C6: a successful update changes, on the record of its id alone, the fields among
\* message, expiration_date and start_date it provided and nothing else; no step
\* changes the created_at or created_by of a record that stays stored.
C6_UpdateTouchesOnlyWhatItProvides ==
    [][/\ (Handling("update") /\ last'.status = 0)
            => /\ DOMAIN store' = DOMAIN store
               /\ ObjectId(last.id) \in DOMAIN store
               /\ \A o \in DOMAIN store \ {ObjectId(last.id)} : store'[o] = store[o]
               /\ last.message = None
                    => store'[ObjectId(last.id)].message = store[ObjectId(last.id)].message
               /\ last.message # None
                    => store'[ObjectId(last.id)].message = last.message
               /\ last.start_date = None
                    => store'[ObjectId(last.id)].start_date
                            = store[ObjectId(last.id)].start_date
               /\ last.start_date # None
                    => store'[ObjectId(last.id)].start_date = last.start_date
               /\ last.expiration_date = None
                    => store'[ObjectId(last.id)].expiration_date
                            = store[ObjectId(last.id)].expiration_date
               /\ last.expiration_date # None
                    => store'[ObjectId(last.id)].expiration_date
                            = SubSeq(last.expiration_date, 1, 10)
       /\ \A o \in DOMAIN store \cap DOMAIN store' :
            /\ store'[o].created_at = store[o].created_at
            /\ store'[o].created_by = store[o].created_by
      ]_vars

\* an update of the message alone has written, on one of two stored documents that
\* has a start_date
C6_Witness ==
    /\ Len(inflight) = 1
    /\ inflight[1].message # None
    /\ inflight[1].expiration_date = None
    /\ inflight[1].start_date = None
    /\ Cardinality(DOMAIN store) = 2
    /\ store[ObjectId(inflight[1].id)].message = inflight[1].message
    /\ store[ObjectId(inflight[1].id)].start_date = D2

\* C7: an update that fails leaves every record unchanged: by a valid actor it
\* answers 400 with no field, 400 with an unparseable date whatever else it provides,
\* and 404, creating nothing, with valid fields and a well-formed id of no record.
C7_FailedUpdateChangesNothing ==
    [][Handling("update")
          => /\ last'.status \in {400, 401, 404} => store' = store
             /\ (/\ Resolves(last.actor)
                 /\ last.message = None
                 /\ last.expiration_date = None
                 /\ last.start_date = None) => last'.status = 400
             /\ (/\ Resolves(last.actor)
                 /\ \/ last.expiration_date # None /\ ~CanParse(last.expiration_date)
                    \/ last.start_date # None /\ ~CanParse(last.start_date))
                    => last'.status = 400
             /\ (/\ Resolves(last.actor)
                 /\ ValidOid(last.id)
                 /\ ObjectId(last.id) \notin DOMAIN store
                 /\ last.expiration_date # None => CanParse(last.expiration_date)
                 /\ last.start_date # None => CanParse(last.start_date)
                 /\ \/ last.message # None
                    \/ last.expiration_date # None
                    \/ last.start_date # None)
                    => last'.status = 404 /\ store' = store
      ]_vars

\* an update of a stored document answered 400 for its start_date, its message and
\* its expiration_date being valid and different from the stored ones
C7_Witness ==
    /\ Answered("update")
    /\ last.status = 400
    /\ Resolves(last.actor)
    /\ ValidOid(last.id)
    /\ ObjectId(last.id) \in DOMAIN store
    /\ last.start_date = BadDate
    /\ last.message # None
    /\ last.message # store[ObjectId(last.id)].message
    /\ last.expiration_date = D1
    /\ store[ObjectId(last.id)].expiration_date # D1

\* C8: the record a successful create returns carries the message given and the
\* expiration date given, re-serialized as YYYY-MM-DD; while the record is neither
\* updated nor deleted, list_all() holds a record of that id with these values.
C8_CreateRoundTrip ==
    /\ (Answered("create") /\ last.status = 200)
        => /\ last.body.message = last.message
           /\ last.body.expiration_date = SubSeq(last.expiration_date, 1, 10)
           /\ Len(last.body.expiration_date) = 10
           /\ ObjectId(last.body.id) \in DOMAIN fresh
           /\ fresh[ObjectId(last.body.id)].message = last.message
           /\ fresh[ObjectId(last.body.id)].expiration_date = last.expiration_date
    /\ Answered("list_all")
        => \A o \in DOMAIN fresh :
            \E i \in 1..Len(last.body) :
                /\ last.body[i].id = StrOid(o)
                /\ last.body[i].message = fresh[o].message
                /\ last.body[i].expiration_date = SubSeq(fresh[o].expiration_date, 1, 10)

\* list_all answered while a record created with a date and a time of day, and not
\* updated since, is stored
C8_Witness ==
    /\ Answered("list_all")
    /\ \E o \in DOMAIN fresh : fresh[o].expiration_date = D2T

\* C9: every update that returns success returns a record carrying the requested id
\* and, for each field the call provided, the value that call wrote.
C9_UpdateReturnsWhatItWrote ==
    (Answered("update") /\ last.status = 200)
        => /\ "id" \in DOMAIN last.body
           /\ last.body.id = StrOid(ObjectId(last.id))
           /\ last.message # None => last.body.message = last.message
           /\ last.start_date # None => last.body.start_date = last.start_date
           /\ last.expiration_date # None
                => last.body.expiration_date = SubSeq(last.expiration_date, 1, 10)

\* the ordering create enforces, start_date <= expiration_date, on a stored document
Ordered(a) ==
    (CanParse(a.start_date) /\ CanParse(a.expiration_date))
        => DateLE(ParseDate(a.start_date), ParseDate(a.expiration_date))

\* C10: update by a valid actor of a stored record with a parseable start_date
\* strictly later than the record's expiration_date, or a parseable expiration_date
\* strictly earlier than the record's start_date, goes through (whatever else it
\* provides that is valid) and stores the value; provided alone, the value leaves the
\* stored record with its start_date after its expiration_date.
C10_UpdateStoresUnorderedDates ==
    [][(/\ Handling("update")
        /\ Resolves(last.actor)
        /\ ValidOid(last.id)
        /\ ObjectId(last.id) \in DOMAIN store)
          => /\ (/\ last.start_date # None
                 /\ CanParse(last.start_date)
                 /\ last.expiration_date = None \/ CanParse(last.expiration_date)
                 /\ DateLT(ParseDate(store[ObjectId(last.id)].expiration_date),
                           ParseDate(last.start_date)))
                    => /\ last'.status = 0
                       /\ inflight' # <<>>
                       /\ store'[ObjectId(last.id)].start_date = last.start_date
                       /\ last.expiration_date = None
                            => ~Ordered(store'[ObjectId(last.id)])
             /\ (/\ last.expiration_date # None
                 /\ CanParse(last.expiration_date)
                 /\ last.start_date = None \/ CanParse(last.start_date)
                 /\ CanParse(store[ObjectId(last.id)].start_date)
                 /\ DateLT(ParseDate(last.expiration_date),
                           ParseDate(store[ObjectId(last.id)].start_date)))
                    => /\ last'.status = 0
                       /\ inflight' # <<>>
                       /\ store'[ObjectId(last.id)].expiration_date
                            = SubSeq(last.expiration_date, 1, 10)
                       /\ last.start_date = None
                            => ~Ordered(store'[ObjectId(last.id)])
      ]_vars

\* an update has returned 200 and the record it returns starts after it expires
C10_Witness ==
    /\ Answered("update")
    /\ last.status = 200
    /\ "id" \in DOMAIN last.body
    /\ ~Ordered(last.body)
    /\ ~Ordered(store[ObjectId(last.id)])

====
